---- MODULE Spec2Model ----
(***************************************************************************)
(* The filecoin-pin upload action of fwss-simple-static-website.           *)
(*                                                                         *)
(* Two scripts are modelled: the original single-phase script              *)
(* (.github/actions/filecoin-pin-upload-action/run.mjs, script = "run")    *)
(* and the phased script (unnamed/part_001, script = "phased"), which      *)
(* dispatches on ACTION_PHASE to compute / from-cache / upload.            *)
(*                                                                         *)
(* One process runs main() once.  Every await of the script is one step;   *)
(* the external SDK and the filesystem answer nondeterministically:        *)
(* every call may return or throw, and returned values are drawn from      *)
(* small sets.  Amounts are bigint token amounts; they are written here    *)
(* in whole USDFC (ethers.parseUnits(x, 18) of a whole-number string).     *)
(***************************************************************************)
EXTENDS Integers, Sequences, FiniteSets, TLC

(***************************************************************************)
(* Bounds of the model.                                                    *)
(***************************************************************************)
MaxAmount == 2          \* deposited amounts and runway quotes are 0..MaxAmount
MaxCarLen == 2          \* archives are 1..MaxCarLen bytes long
MaxFaults == 1          \* at most MaxFaults calls of a run throw because of an I/O fault

(***************************************************************************)
(* JavaScript values: undefined, numbers and strings.                      *)
(***************************************************************************)
Undefined == [t |-> "undefined", v |-> ""]
Str(s) == [t |-> "string", v |-> s]
Num(n) == [t |-> "number", v |-> n]

\* The decimal rendering of the small numbers the model uses.
Digits == <<"0", "1", "2", "3", "4", "5", "6", "7", "8", "9">>

\* String(value): numbers become their decimal digits, strings stay.
JsString(x) ==
    CASE x.t = "string" -> x.v
      [] x.t = "number" -> Digits[x.v + 1]
      [] OTHER -> "undefined"

\* a ?? b : b replaces only undefined (and null)
Nullish(a, b) == IF a.t = "undefined" THEN b ELSE a

\* truthiness: undefined, 0 and the empty string are falsy
Truthy(a) ==
    CASE a.t = "undefined" -> FALSE
      [] a.t = "number" -> a.v # 0
      [] OTHER -> a.v # ""

\* a || b : b replaces every falsy value
OrElse(a, b) == IF Truthy(a) THEN a ELSE b

(***************************************************************************)
(* Environment variables.  An INPUT_* value is unset or a string; strings  *)
(* that the script trims or case-folds are sequences of characters.        *)
(***************************************************************************)
Unset == [set |-> FALSE, v |-> <<>>]
Val(s) == [set |-> TRUE, v |-> s]

IsSpace(c) == c = " "

RECURSIVE TrimLeft(_)
TrimLeft(s) ==
    IF s # <<>> /\ IsSpace(Head(s)) THEN TrimLeft(Tail(s)) ELSE s

RECURSIVE TrimRight(_)
TrimRight(s) ==
    IF s # <<>> /\ IsSpace(s[Len(s)]) THEN TrimRight(SubSeq(s, 1, Len(s) - 1)) ELSE s

\* String.prototype.trim
Trim(s) == TrimRight(TrimLeft(s))

UpperChar(c) ==
    CASE c = "u" -> "U" [] c = "s" -> "S" [] c = "d" -> "D" [] c = "f" -> "F"
      [] c = "c" -> "C" [] c = "t" -> "T" [] c = "r" -> "R" [] c = "e" -> "E"
      [] c = "i" -> "I" [] c = "l" -> "L" [] c = "y" -> "Y" [] c = "x" -> "X"
      [] OTHER -> c

LowerChar(c) ==
    CASE c = "U" -> "u" [] c = "S" -> "s" [] c = "D" -> "d" [] c = "F" -> "f"
      [] c = "C" -> "c" [] c = "T" -> "t" [] c = "R" -> "r" [] c = "E" -> "e"
      [] c = "I" -> "i" [] c = "L" -> "l" [] c = "Y" -> "y" [] c = "X" -> "x"
      [] OTHER -> c

\* String.prototype.toUpperCase / toLowerCase
ToUpperCase(s) == [i \in 1..Len(s) |-> UpperChar(s[i])]
ToLowerCase(s) == [i \in 1..Len(s) |-> LowerChar(s[i])]

IsDigit(c) == c \in {"0", "1", "2", "3", "4", "5", "6", "7", "8", "9"}

DigitValue(c) == CHOOSE d \in 0..9 : Digits[d + 1] = c

AllDigits(s) == s # <<>> /\ \A i \in 1..Len(s) : IsDigit(s[i])

RECURSIVE DecimalValue(_)
DecimalValue(s) ==
    IF s = <<>> THEN 0
    ELSE 10 * DecimalValue(SubSeq(s, 1, Len(s) - 1)) + DigitValue(s[Len(s)])

\* Number(s) on the strings of the model: "" is 0, a run of digits with an
\* optional sign is that integer, everything else is NaN.
NaN == [nan |-> TRUE, n |-> 0]
Finite(n) == [nan |-> FALSE, n |-> n]

Number(s) ==
    CASE s = <<>> -> Finite(0)
      [] AllDigits(s) -> Finite(DecimalValue(s))
      [] Head(s) = "-" /\ AllDigits(Tail(s)) -> Finite(0 - DecimalValue(Tail(s)))
      [] OTHER -> NaN

\* ethers.parseUnits(s, 18) on the strings of the model, in whole USDFC:
\* a run of digits with an optional sign parses, everything else throws.
ParseUnitsThrows(s) ==
    ~ (AllDigits(s) \/ (s # <<>> /\ Head(s) = "-" /\ AllDigits(Tail(s))))

parseUnits(s) ==
    IF AllDigits(s) THEN DecimalValue(s) ELSE 0 - DecimalValue(Tail(s))


UnsetS == [set |-> FALSE, v |-> ""]

(***************************************************************************)
(* State.                                                                  *)
(***************************************************************************)
VARIABLES
    script,         \* "run" (run.mjs) or "phased" (the phased script)
    env,            \* process.env
    restored,       \* the file CACHE_DIR/upload.json restored by the workflow
    pc,             \* position of main()
    exitCode,       \* "running", or the exit status 0 / 1 of the process
    failed,         \* the call that threw, "" when none did
    faults,         \* the number of calls that threw because of an injected fault
    console,        \* the kinds of line written to the console
    calls,          \* the calls made to the SDK and to the filesystem, in order
    handle,         \* TRUE once initializeSynapse returned the service handle
    status,         \* let status
    requiredTopUp,  \* let requiredTopUp
    policy,         \* outcome of the top-up policy: pending / none / deposit / ceiling
    carPath,        \* let carPath
    rootCidStr,     \* let rootCidStr
    carBytes,       \* const carBytes
    providerInfo,   \* const providerInfo
    uploaded,       \* { pieceCid, pieceId, dataSetId } returned by uploadToSynapse
    meta,           \* const meta (from-cache)
    written,        \* the metadata files written by this run
    outputs,        \* the lines appended to the GITHUB_OUTPUT file
    outIdx,         \* the number of writeOutput calls made
    summary         \* the GITHUB_STEP_SUMMARY file

vars ==
    <<script, env, restored, pc, exitCode, failed, faults, console, calls, handle, status,
      requiredTopUp, policy, carPath, rootCidStr, carBytes, providerInfo, uploaded,
      meta, written, outputs, outIdx, summary>>

(***************************************************************************)
(* Input sets.                                                             *)
(***************************************************************************)
PrivateKeyEnv == {Unset, Val(<< >>), Val(<<" ">>), Val(<<"k">>)}
MinDaysEnv == {Unset, Val(<<"0">>), Val(<< >>)}
MinBalanceEnv == {Unset, Val(<<"2">>), Val(<<"x">>)}
MaxTopUpEnv == {Unset, Val(<<"1">>)}
WithCDNEnv == {Unset, Val(<<"T", "R", "U", "E">>), Val(<<"1">>), Val(<<" ", "Y", "e", "s">>),
               Val(<< >>), Val(<<"f", "a", "l", "s", "e">>), Val(<<"n", "o">>),
               Val(<<"y">>)}
TokenEnv == {Unset, Val(<<" ">>), Val(<<"u", "s", "d", "f", "c">>), Val(<<"F", "I", "L">>)}
FromArtifactEnv == {Unset, Val(<<"T", "r", "u", "e">>)}
PhaseEnv == {UnsetS, [set |-> TRUE, v |-> "compute"], [set |-> TRUE, v |-> "from-cache"],
             [set |-> TRUE, v |-> "upload"], [set |-> TRUE, v |-> "deploy"]}
PathEnv(p) == {UnsetS, [set |-> TRUE, v |-> p]}

Amounts == 0..MaxAmount
CarLens == 1..MaxCarLen

\* What createStorageContext can return as providerInfo.
ProviderInfos ==
    { [id |-> Num(3), name |-> Str("provider"), serviceProvider |-> Str("0xsp"),
       serviceURL |-> Str("https://pdp")],
      [id |-> Undefined, name |-> Undefined, serviceProvider |-> Str("0xsp"),
       serviceURL |-> Undefined] }

\* What uploadToSynapse can return.
UploadResults ==
    { [pieceCid |-> Str("bafkpiece1"), pieceId |-> Num(0), dataSetId |-> Num(7)],
      [pieceCid |-> Str("bafkpiece2"), pieceId |-> Undefined, dataSetId |-> Str("8")] }

NoStatus == [fetched |-> FALSE, depositedAmount |-> 0, quote |-> 0]
NoBytes == [path |-> "", length |-> 0]
NoProvider == [id |-> Undefined, name |-> Undefined, serviceProvider |-> Undefined,
               serviceURL |-> Undefined]
NoUpload == [pieceCid |-> Undefined, pieceId |-> Undefined, dataSetId |-> Undefined]

(***************************************************************************)
(* The inputs of main(), lines 35-43 and 57-60 of the phased script.       *)
(***************************************************************************)
\* getInput(name, fallback): the variable INPUT_<NAME> trimmed, the fallback
\* when the variable is not set.
getInput(name, fallback) ==
    LET key == CASE name = "privateKey" -> "INPUT_PRIVATEKEY"
                 [] name = "path" -> "INPUT_PATH"
                 [] name = "minDays" -> "INPUT_MINDAYS"
                 [] name = "minBalance" -> "INPUT_MINBALANCE"
                 [] name = "maxTopUp" -> "INPUT_MAXTOPUP"
                 [] name = "withCDN" -> "INPUT_WITHCDN"
                 [] name = "token" -> "INPUT_TOKEN"
                 [] name = "providerAddress" -> "INPUT_PROVIDERADDRESS"
    IN Trim(IF env[key].set THEN env[key].v ELSE fallback)

\* Mutant of parseBoolean: the letters are compared without folding the case.
parseBooleanCaseSensitive(v) ==
    LET s == Trim(v)
    IN s = <<"t", "r", "u", "e">> \/ s = <<"1">> \/ s = <<"y", "e", "s">>

\* parseBoolean on a string
parseBoolean(v) ==
    LET s == ToLowerCase(Trim(v))
    IN s = <<"t", "r", "u", "e">> \/ s = <<"1">> \/ s = <<"y", "e", "s">>

phase == IF script = "phased" /\ env.ACTION_PHASE.set /\ env.ACTION_PHASE.v # ""
         THEN env.ACTION_PHASE.v ELSE "single"
privateKey == getInput("privateKey", <<>>)
contentPath == getInput("path", <<"d", "i", "s", "t">>)
minDaysRaw == getInput("minDays", <<"1", "0">>)
minBalanceRaw == getInput("minBalance", <<>>)
maxTopUpRaw == getInput("maxTopUp", <<>>)
withCDN == parseBoolean(getInput("withCDN", <<"f", "a", "l", "s", "e">>))
token == getInput("token", <<"U", "S", "D", "F", "C">>)
providerAddress == getInput("providerAddress", <<"0", "x", "a", "3">>)

minDays ==
    LET n == Number(minDaysRaw)
    IN IF n.nan \/ n.n < 0 THEN 0 ELSE n.n
minBalance == IF minBalanceRaw # <<>> THEN parseUnits(minBalanceRaw) ELSE 0
hasMaxTopUp == maxTopUpRaw # <<>>
maxTopUp == IF hasMaxTopUp THEN parseUnits(maxTopUpRaw) ELSE 0

\* FROM_ARTIFACT, line 86
fromArtifact ==
    ToLowerCase(IF env.FROM_ARTIFACT.set THEN env.FROM_ARTIFACT.v ELSE <<>>)
        = <<"t", "r", "u", "e">>

\* The upload sequence runs for every phase but compute and from-cache.
UploadPhase == phase \notin {"compute", "from-cache"}


(***************************************************************************)
(* Paths and identifiers.                                                  *)
(***************************************************************************)
network == Str("calibration")                 \* synapse.getNetwork()
targetPath == Str("ws/dist")                  \* resolve(workspace, contentPath)
packedCarPath == "tmp/packed.car"             \* carPath of createCarFromPath
packedRootCid == "bafypacked"                 \* rootCid of createCarFromPath
preparedCarPath == "tmp/prepared.car"         \* PREPARED_CAR_PATH of the workflow
preparedRootCid == "bafyprepared"             \* PREPARED_ROOT_CID of the workflow
artifactCarPath == "ws/filecoin-pin-artifacts/upload.car"
metadataPath == "ws/filecoin-pin-artifacts/upload.json"
restoredDir == "ws/restored"                  \* CACHE_DIR of the workflow
metaPath == "ws/restored/upload.json"         \* join(cacheDir, 'upload.json')

\* An environment variable read with "|| default" or tested with "!x":
\* unset and empty both count as absent.
Present(x) == x.set /\ x.v # ""

(***************************************************************************)
(* The Metadata Record and the action outputs.                             *)
(***************************************************************************)
\* providerInfo.id ?? ''
providerIdOf(prov) == Nullish(prov.id, Str(""))

\* providerInfo.name ?? (providerInfo.serviceProvider || '')
providerNameOf(prov) == Nullish(prov.name, OrElse(prov.serviceProvider, Str("")))

\* getDownloadURL(providerInfo, pieceCid) || `https://ipfs.io/ipfs/${rootCidStr}`
previewURLOf(prov, up, root) ==
    IF Truthy(prov.serviceURL) /\ Truthy(up.pieceCid)
    THEN Str(<<prov.serviceURL.v, "/piece/", up.pieceCid.v>>)
    ELSE Str(<<"https://ipfs.io/ipfs/", root>>)

\* The object handed to JSON.stringify.
MetadataObject(root, up, prov) ==
    [network |-> network,
     contentPath |-> targetPath,
     carPath |-> Str(artifactCarPath),
     rootCid |-> Str(root),
     pieceCid |-> up.pieceCid,
     pieceId |-> up.pieceId,
     dataSetId |-> up.dataSetId,
     providerId |-> providerIdOf(prov),
     providerName |-> providerNameOf(prov),
     previewURL |-> previewURLOf(prov, up, root)]

\* JSON.stringify: a property whose value is undefined is left out.
JsonStringify(obj) ==
    [k \in {f \in DOMAIN obj : obj[f].t # "undefined"} |-> obj[k]]

\* No text: the content of a file that was not written or not read.
NoText == [k \in {} |-> Undefined]

\* upload.json in the artifact directory and in .filecoin-pin-cache/<root>/
NoFiles == [artifact |-> NoText, cache |-> NoText, cacheKey |-> ""]

\* Reading a property of JSON.parse(text): a missing property is undefined.
JsonGet(text, k) == IF k \in DOMAIN text THEN text[k] ELSE Undefined

\* One line of the output file: `${name}=${String(value ?? '')}`
OutputLine(name, value) == <<name, JsString(Nullish(value, Str("")))>>

\* Mutant of UploadOutputs: the status is tagged before and after the other keys.
UploadOutputsStatusTwice(sc, root, up, prov) ==
    << OutputLine("upload_status", Str("uploading")),
       OutputLine("root_cid", Str(root)),
       OutputLine("data_set_id", up.dataSetId),
       OutputLine("piece_cid", up.pieceCid),
       OutputLine("provider_id", providerIdOf(prov)),
       OutputLine("provider_name", providerNameOf(prov)),
       OutputLine("car_path", Str(artifactCarPath)),
       OutputLine("metadata_path", Str(metadataPath)),
       OutputLine("upload_status", Str("uploaded")) >>

\* The writeOutput calls of the upload sequence, in order.
UploadOutputs(sc, root, up, prov) ==
    << OutputLine("root_cid", Str(root)),
       OutputLine("data_set_id", up.dataSetId),
       OutputLine("piece_cid", up.pieceCid),
       OutputLine("provider_id", providerIdOf(prov)),
       OutputLine("provider_name", providerNameOf(prov)),
       OutputLine("car_path", Str(artifactCarPath)),
       OutputLine("metadata_path", Str(metadataPath)) >>
    \o (IF sc = "phased" THEN << OutputLine("upload_status", Str("uploaded")) >> ELSE << >>)

\* Mutant of ComputeOutputs: the compute phase also tags an upload status.
ComputeOutputsWithStatus(root, car) ==
    << OutputLine("root_cid", Str(root)), OutputLine("car_path", Str(car)),
       OutputLine("upload_status", Str("uploaded")) >>

\* The writeOutput calls of the compute phase.
ComputeOutputs(root, car) ==
    << OutputLine("root_cid", Str(root)), OutputLine("car_path", Str(car)) >>

\* Mutant of FromCacheOutputs: data_set_id is taken from meta.pieceId.
FromCacheOutputsWrongField(m, artifact) ==
    << OutputLine("root_cid", JsonGet(m, "rootCid")),
       OutputLine("data_set_id", JsonGet(m, "pieceId")),
       OutputLine("piece_cid", JsonGet(m, "pieceCid")),
       OutputLine("provider_id", OrElse(JsonGet(m, "providerId"), Str(""))),
       OutputLine("provider_name", OrElse(JsonGet(m, "providerName"), Str(""))),
       OutputLine("car_path", JsonGet(m, "carPath")),
       OutputLine("metadata_path", Str(metaPath)),
       OutputLine("upload_status",
                  IF artifact THEN Str("reused-artifact") ELSE Str("reused-cache")) >>

\* The writeOutput calls of the from-cache phase.
FromCacheOutputs(m, artifact) ==
    << OutputLine("root_cid", JsonGet(m, "rootCid")),
       OutputLine("data_set_id", JsonGet(m, "dataSetId")),
       OutputLine("piece_cid", JsonGet(m, "pieceCid")),
       OutputLine("provider_id", OrElse(JsonGet(m, "providerId"), Str(""))),
       OutputLine("provider_name", OrElse(JsonGet(m, "providerName"), Str(""))),
       OutputLine("car_path", JsonGet(m, "carPath")),
       OutputLine("metadata_path", Str(metaPath)),
       OutputLine("upload_status",
                  IF artifact THEN Str("reused-artifact") ELSE Str("reused-cache")) >>

\* The writeOutput calls of the phase that is running.
OutputList ==
    CASE phase = "compute" /\ script = "phased" -> ComputeOutputs(rootCidStr, carPath)
      [] phase = "from-cache" /\ script = "phased" -> FromCacheOutputs(meta, fromArtifact)
      [] OTHER -> UploadOutputs(script, rootCidStr, uploaded, providerInfo)

(***************************************************************************)
(* Initial states: a fresh process, with the environment the workflow      *)
(* gives it.  The workflow sets PREPARED_*, FROM_ARTIFACT and CACHE_DIR    *)
(* only for the phases that read them, and on the platform both the        *)
(* output file and the summary file are configured.  The CDN flag and the  *)
(* platform files do not interact with the payment inputs: they are        *)
(* varied with the default payment inputs.  So are an unknown phase name   *)
(* and an upload phase without the prepared archive, which run the same    *)
(* sequence as the single phase, and inputs that are left out or set to    *)
(* an empty or blank string.  The payment inputs are varied in full in     *)
(* run.mjs and in the from-cache phase, whose policy code is the same as   *)
(* that of the phased upload sequence, where only the ceiling is varied.   *)
(***************************************************************************)
\* The upload.json an earlier upload run wrote, as the workflow restores it.
RestoredFile(up, prov) ==
    [exists |-> TRUE,
     text |-> JsonStringify(MetadataObject(preparedRootCid, up, prov)),
     by |-> [root |-> preparedRootCid, up |-> up, prov |-> prov]]

NoRestoredFile ==
    [exists |-> FALSE, text |-> NoText,
     by |-> [root |-> "", up |-> NoUpload, prov |-> NoProvider]]

Init ==
    /\ script \in {"run", "phased"}
    /\ \E key \in PrivateKeyEnv, days \in MinDaysEnv, bal \in MinBalanceEnv,
          top \in MaxTopUpEnv, cdn \in WithCDNEnv, tok \in TokenEnv,
          ph \in PhaseEnv, art \in FromArtifactEnv,
          dir \in PathEnv(restoredDir), car \in PathEnv(preparedCarPath),
          root \in PathEnv(preparedRootCid), platform \in BOOLEAN :
        LET p == IF script = "phased" /\ Present(ph) THEN ph.v ELSE "single"
        IN /\ (cdn.set \/ ~ platform) => ~ days.set /\ ~ bal.set /\ ~ top.set
           /\ cdn.set => platform /\ script = "phased"
           /\ cdn.set => p = IF cdn = Val(<<"T", "R", "U", "E">>) THEN "single" ELSE "compute"
           /\ ~ platform => script = "phased" /\ p \in {"single", "from-cache", "compute"}
           /\ (script = "phased" /\ p \in {"single", "upload"}) =>
                  ~ bal.set /\ days # Val(<<"0">>)
           /\ tok = Unset => p = "single"
           /\ tok = Val(<<" ">>) => p = "compute"
           /\ days = Val(<< >>) => p = "single"
           /\ (p = "from-cache" /\ (days.set \/ bal.set \/ top.set)) =>
                  ~ art.set /\ ~ car.set
           /\ (days = Val(<< >>) \/ tok \in {Unset, Val(<<" ">>)}) =>
                  /\ ~ bal.set /\ ~ top.set /\ ~ cdn.set /\ platform /\ ~ car.set
                  /\ script = "phased"
                  /\ days = Val(<< >>) => tok.set
           /\ (p = "deploy" \/ (p = "upload" /\ ~ root.set)) =>
                  ~ days.set /\ ~ bal.set /\ ~ top.set /\ ~ cdn.set /\ platform
           /\ script = "run" => ~ ph.set
           /\ p # "from-cache" => ~ art.set /\ ~ dir.set
           /\ (script = "run" \/ p \in {"compute", "deploy", "single"}) => ~ car.set
           /\ root.set => car.set /\ p # "from-cache"
           /\ env = [INPUT_PRIVATEKEY |-> key, INPUT_PATH |-> Unset,
                     INPUT_MINDAYS |-> days, INPUT_MINBALANCE |-> bal,
                     INPUT_MAXTOPUP |-> top, INPUT_WITHCDN |-> cdn,
                     INPUT_TOKEN |-> tok, INPUT_PROVIDERADDRESS |-> Unset,
                     ACTION_PHASE |-> ph, FROM_ARTIFACT |-> art, CACHE_DIR |-> dir,
                     PREPARED_CAR_PATH |-> car, PREPARED_ROOT_CID |-> root,
                     GITHUB_OUTPUT |-> IF platform THEN [set |-> TRUE, v |-> "out"]
                                       ELSE UnsetS,
                     GITHUB_STEP_SUMMARY |-> IF platform THEN [set |-> TRUE, v |-> "sum"]
                                             ELSE UnsetS,
                     PROVIDER_ADDRESS |-> Unset, WITH_CDN |-> UnsetS]
           /\ \/ restored = NoRestoredFile
              \/ /\ p = "from-cache"
                 /\ \E up \in UploadResults, prov \in ProviderInfos :
                        /\ restored = RestoredFile(up, prov)
                        /\ (days.set \/ bal.set \/ top.set) =>
                               up.pieceId # Undefined /\ prov.id # Undefined
    /\ pc = "start"
    /\ exitCode = "running"
    /\ failed = ""
    /\ faults = 0
    /\ console = {}
    /\ calls = << >>
    /\ handle = FALSE
    /\ status = NoStatus
    /\ requiredTopUp = 0
    /\ policy = "pending"
    /\ carPath = ""
    /\ rootCidStr = ""
    /\ carBytes = NoBytes
    /\ providerInfo = NoProvider
    /\ uploaded = NoUpload
    /\ meta = NoText
    /\ written = NoFiles
    /\ outputs = << >>
    /\ outIdx = 0
    /\ summary = << "earlier step" >>


(***************************************************************************)
(* Steps of main().                                                        *)
(***************************************************************************)
Call(fn, arg, ok) == [fn |-> fn, arg |-> arg, ok |-> ok]

\* The SDK or the filesystem answers a call: it returns, or it throws.
Returns(fn, arg) == calls' = Append(calls, Call(fn, arg, TRUE)) /\ faults' = faults
Throws(fn, arg) ==
    /\ faults < MaxFaults
    /\ faults' = faults + 1
    /\ calls' = Append(calls, Call(fn, arg, FALSE))

locals == <<status, requiredTopUp, policy, carPath, rootCidStr, carBytes,
            providerInfo, uploaded, meta>>
files == <<written, outputs, outIdx, summary>>
fixed == <<script, restored>>

\* process.exit(code), or the end of the process after main() returned
Exit(code) == pc' = "exited" /\ exitCode' = code

\* Mutant of Throw: the try of the from-cache phase catches nothing.
ThrowFatal(fn) ==
    /\ failed' = fn
    /\ exitCode' = exitCode
    /\ pc' = "catch"
    /\ console' = console

\* A rejected await or a throw inside the try of the from-cache phase is
\* caught at line 137 and logged as a warning; anywhere else it rejects
\* main() and reaches the handler of main().catch.
InTry == script = "phased" /\ phase = "from-cache" /\ pc \in
            {"fc.readcar", "fc.init", "fc.allow", "fc.status", "fc.policy",
             "fc.deposit", "fc.refetch", "fc.validate"}

Throw(fn) ==
    /\ failed' = fn
    /\ exitCode' = exitCode
    /\ IF InTry
       THEN pc' = "fc.finally" /\ console' = console \cup {"warn: validation failed"}
       ELSE pc' = "catch" /\ console' = console

\* An awaited call that changes nothing but the position: it returns, or throws.
Await(at, fn, arg, next) ==
    /\ pc = at
    /\ \/ /\ Returns(fn, arg)
          /\ pc' = next
          /\ UNCHANGED <<exitCode, failed, console>>
       \/ /\ Throws(fn, arg)
          /\ Throw(fn)

\* Mutant of ReadInputs: only a privateKey that is not set at all is refused.
ReadInputsUnsetOnly ==
    /\ pc = "start"
    /\ IF ~ env.INPUT_PRIVATEKEY.set
       THEN /\ console' = console \cup {"error: privateKey is required"}
            /\ Exit(1)
       ELSE /\ pc' = "parse"
            /\ UNCHANGED <<console, exitCode>>
    /\ UNCHANGED <<fixed, env, failed, faults, calls, handle, locals, files>>

\* lines 35-48: read the inputs; a missing privateKey ends the process
ReadInputs ==
    /\ pc = "start"
    /\ IF privateKey = << >>
       THEN /\ console' = console \cup {"error: privateKey is required"}
            /\ Exit(1)
       ELSE /\ pc' = "parse"
            /\ UNCHANGED <<console, exitCode>>
    /\ UNCHANGED <<fixed, env, failed, faults, calls, handle, locals, files>>

\* lines 57-60: parse minDays, minBalance and maxTopUp
ParseValues ==
    /\ pc = "parse"
    /\ IF \/ minBalanceRaw # << >> /\ ParseUnitsThrows(minBalanceRaw)
          \/ maxTopUpRaw # << >> /\ ParseUnitsThrows(maxTopUpRaw)
       THEN Throw("parseUnits")
       ELSE pc' = "token" /\ UNCHANGED <<exitCode, failed, console>>
    /\ UNCHANGED <<fixed, env, faults, calls, handle, locals, files>>

\* Mutant of ValidateToken: the from-cache branch is missing from the dispatch.
ValidateTokenNoFromCache ==
    /\ pc = "token"
    /\ IF token # << >> /\ ToUpperCase(token) # <<"U", "S", "D", "F", "C">>
       THEN /\ console' = console \cup {"error: Only USDFC is supported"}
            /\ Exit(1)
            /\ env' = env
       ELSE /\ env' = IF script = "phased" /\ providerAddress # << >>
                      THEN [env EXCEPT !.PROVIDER_ADDRESS = Val(providerAddress)]
                      ELSE env
            /\ pc' = CASE script = "phased" /\ phase = "compute" -> "c.stat"
                       [] OTHER -> "init"
            /\ UNCHANGED <<console, exitCode>>
    /\ UNCHANGED <<fixed, failed, faults, calls, handle, locals, files>>

\* Mutant of ValidateToken: the token is validated in the upload sequence only.
ValidateTokenUploadOnly ==
    /\ pc = "token"
    /\ IF UploadPhase /\ token # << >> /\ ToUpperCase(token) # <<"U", "S", "D", "F", "C">>
       THEN /\ console' = console \cup {"error: Only USDFC is supported"}
            /\ Exit(1)
            /\ env' = env
       ELSE /\ env' = IF script = "phased" /\ providerAddress # << >>
                      THEN [env EXCEPT !.PROVIDER_ADDRESS = Val(providerAddress)]
                      ELSE env
            /\ pc' = CASE script = "phased" /\ phase = "compute" -> "c.stat"
                       [] script = "phased" /\ phase = "from-cache" -> "fc.meta"
                       [] OTHER -> "init"
            /\ UNCHANGED <<console, exitCode>>
    /\ UNCHANGED <<fixed, failed, faults, calls, handle, locals, files>>

\* Mutant of ValidateToken: a phase name that is not known ends the run.
ValidateTokenKnownPhases ==
    /\ pc = "token"
    /\ IF \/ token # << >> /\ ToUpperCase(token) # <<"U", "S", "D", "F", "C">>
          \/ phase \notin {"single", "upload", "compute", "from-cache"}
       THEN /\ console' = console \cup {"error: Only USDFC is supported"}
            /\ Exit(1)
            /\ env' = env
       ELSE /\ env' = IF script = "phased" /\ providerAddress # << >>
                      THEN [env EXCEPT !.PROVIDER_ADDRESS = Val(providerAddress)]
                      ELSE env
            /\ pc' = CASE script = "phased" /\ phase = "compute" -> "c.stat"
                       [] script = "phased" /\ phase = "from-cache" -> "fc.meta"
                       [] OTHER -> "init"
            /\ UNCHANGED <<console, exitCode>>
    /\ UNCHANGED <<fixed, failed, faults, calls, handle, locals, files>>

\* lines 63-71 and the dispatch on the phase (lines 74, 85, 185)
ValidateToken ==
    /\ pc = "token"
    /\ IF token # << >> /\ ToUpperCase(token) # <<"U", "S", "D", "F", "C">>
       THEN /\ console' = console \cup {"error: Only USDFC is supported"}
            /\ Exit(1)
            /\ env' = env
       ELSE /\ env' = IF script = "phased" /\ providerAddress # << >>
                      THEN [env EXCEPT !.PROVIDER_ADDRESS = Val(providerAddress)]
                      ELSE env
            /\ pc' = CASE script = "phased" /\ phase = "compute" -> "c.stat"
                       [] script = "phased" /\ phase = "from-cache" -> "fc.meta"
                       [] OTHER -> "init"
            /\ UNCHANGED <<console, exitCode>>
    /\ UNCHANGED <<fixed, failed, faults, calls, handle, locals, files>>


(***************************************************************************)
(* The top-up policy.                                                      *)
(***************************************************************************)
\* computeTopUpForDuration(status, minDays).topUp: the SDK's quote for the
\* runway, carried by the status it was computed from.
computeTopUpForDuration(st, days) == st.quote

\* Mutant of requiredTopUpUpload: the two constraints are added up.
requiredTopUpSum(st, days, bal) ==
    (IF days > 0 THEN computeTopUpForDuration(st, days) ELSE 0)
    + (IF bal > 0 /\ st.depositedAmount < bal THEN bal - st.depositedAmount ELSE 0)

\* Mutant of requiredTopUpUpload: the quote is used whatever minDays is.
requiredTopUpNoDaysGuard(st, days, bal) ==
    LET topUp == computeTopUpForDuration(st, days)
        delta == bal - st.depositedAmount
    IN IF bal > 0 /\ st.depositedAmount < bal /\ delta > topUp THEN delta ELSE topUp

\* lines 199-209 (upload sequence): the required top-up
requiredTopUpUpload(st, days, bal) ==
    LET r0 == 0
        topUp == computeTopUpForDuration(st, days)
        r1 == IF days > 0 /\ topUp > r0 THEN topUp ELSE r0
        delta == bal - st.depositedAmount
    IN IF bal > 0 /\ st.depositedAmount < bal /\ delta > r1 THEN delta ELSE r1

\* lines 115-123 (from-cache phase): the required top-up
requiredTopUpFromCache(st, days, bal) ==
    LET r0 == 0
        topUp == computeTopUpForDuration(st, days)
        r1 == IF days > 0 /\ topUp > r0 THEN topUp ELSE r0
        delta == bal - st.depositedAmount
    IN IF bal > 0 /\ st.depositedAmount < bal /\ delta > r1 THEN delta ELSE r1

\* Mutant of ExceedsCeiling: the ceiling is not compared at all.
ExceedsCeilingNever(required) == FALSE

\* lines 212 and 125: maxTopUp != null && requiredTopUp > maxTopUp
ExceedsCeiling(required) == hasMaxTopUp /\ required > maxTopUp

\* The status a getPaymentStatus call returns after a deposit of `amount`.
StatusAfterDeposit(st, amount) ==
    [fetched |-> TRUE,
     depositedAmount |-> st.depositedAmount + amount,
     quote |-> IF st.quote > amount THEN st.quote - amount ELSE 0]

(***************************************************************************)
(* The upload sequence (upload, single and unknown phases; run.mjs).       *)
(***************************************************************************)
\* line 189
InitializeSynapse ==
    /\ Await("init", "initializeSynapse", << >>, "allow")
    /\ handle' = (pc' = "allow")
    /\ UNCHANGED <<fixed, env, locals, files>>

\* line 193
CheckAndSetAllowances ==
    /\ Await("allow", "checkAndSetAllowances", << >>, "status")
    /\ UNCHANGED <<fixed, env, handle, locals, files>>

\* line 196
GetPaymentStatus ==
    /\ Await("status", "getPaymentStatus", << >>, "policy")
    /\ IF pc' = "policy"
       THEN \E d \in Amounts, q \in Amounts :
                status' = [fetched |-> TRUE, depositedAmount |-> d, quote |-> q]
       ELSE status' = status
    /\ UNCHANGED <<fixed, env, handle, requiredTopUp, policy, carPath, rootCidStr,
                   carBytes, providerInfo, uploaded, meta, files>>

\* Mutant of TopUpPolicy: a top-up that is due is left for after the upload.
TopUpPolicyDepositLater ==
    /\ pc = "policy"
    /\ LET required == requiredTopUpUpload(status, minDays, minBalance)
       IN /\ requiredTopUp' = required
          /\ IF required > 0
             THEN IF ExceedsCeiling(required)
                  THEN /\ console' = console \cup {"error: Top-up required exceeds maxTopUp"}
                       /\ policy' = "ceiling"
                       /\ Exit(1)
                  ELSE /\ policy' = "deposit"
                       /\ pc' = "prepare"
                       /\ UNCHANGED <<console, exitCode>>
             ELSE /\ policy' = "none"
                  /\ pc' = "prepare"
                  /\ UNCHANGED <<console, exitCode>>
    /\ UNCHANGED <<fixed, env, failed, faults, calls, handle, status, carPath, rootCidStr,
                   carBytes, providerInfo, uploaded, meta, files>>

\* lines 199-217: compute the top-up; above the ceiling the process exits
TopUpPolicy ==
    /\ pc = "policy"
    /\ LET required == requiredTopUpUpload(status, minDays, minBalance)
       IN /\ requiredTopUp' = required
          /\ IF required > 0
             THEN IF ExceedsCeiling(required)
                  THEN /\ console' = console \cup {"error: Top-up required exceeds maxTopUp"}
                       /\ policy' = "ceiling"
                       /\ Exit(1)
                  ELSE /\ policy' = "deposit"
                       /\ pc' = "deposit"
                       /\ UNCHANGED <<console, exitCode>>
             ELSE /\ policy' = "none"
                  /\ pc' = "prepare"
                  /\ UNCHANGED <<console, exitCode>>
    /\ UNCHANGED <<fixed, env, failed, faults, calls, handle, status, carPath, rootCidStr,
                   carBytes, providerInfo, uploaded, meta, files>>

\* Mutant of DepositUSDFC: the status is not fetched again after the deposit.
DepositWithoutRefetch ==
    /\ Await("deposit", "depositUSDFC", <<requiredTopUp>>, "prepare")
    /\ UNCHANGED <<fixed, env, handle, locals, files>>

\* line 220
DepositUSDFC ==
    /\ Await("deposit", "depositUSDFC", <<requiredTopUp>>, "refetch")
    /\ UNCHANGED <<fixed, env, handle, locals, files>>

\* line 221
RefetchStatus ==
    /\ Await("refetch", "getPaymentStatus", << >>, "prepare")
    /\ status' = IF pc' = "prepare" THEN StatusAfterDeposit(status, requiredTopUp)
                 ELSE status
    /\ UNCHANGED <<fixed, env, handle, requiredTopUp, policy, carPath, rootCidStr,
                   carBytes, providerInfo, uploaded, meta, files>>

\* Mutant of PrepareCar: packaging is skipped when the archive path alone is given.
PrepareCarPathOnly ==
    /\ pc = "prepare"
    /\ LET car == IF script = "phased" /\ Present(env.PREPARED_CAR_PATH)
                  THEN env.PREPARED_CAR_PATH.v ELSE ""
           root == IF script = "phased" /\ Present(env.PREPARED_ROOT_CID)
                   THEN env.PREPARED_ROOT_CID.v ELSE ""
       IN /\ carPath' = car
          /\ rootCidStr' = root
          /\ pc' = IF car = "" THEN "stat" ELSE "readcar"
    /\ UNCHANGED <<fixed, env, exitCode, failed, console, faults, calls, handle, status,
                   requiredTopUp, policy, carBytes, providerInfo, uploaded, meta, files>>

\* lines 185-186 and 225-227: the prepared archive, when both values are given
PrepareCar ==
    /\ pc = "prepare"
    /\ LET car == IF script = "phased" /\ Present(env.PREPARED_CAR_PATH)
                  THEN env.PREPARED_CAR_PATH.v ELSE ""
           root == IF script = "phased" /\ Present(env.PREPARED_ROOT_CID)
                   THEN env.PREPARED_ROOT_CID.v ELSE ""
       IN /\ carPath' = car
          /\ rootCidStr' = root
          /\ pc' = IF car = "" \/ root = "" THEN "stat" ELSE "readcar"
    /\ UNCHANGED <<fixed, env, exitCode, failed, console, faults, calls, handle, status,
                   requiredTopUp, policy, carBytes, providerInfo, uploaded, meta, files>>

\* Mutant of StatTarget: the phased script packs without looking at the target.
StatTargetSkippedWhenPhased ==
    /\ IF script = "phased"
       THEN /\ pc = "stat"
            /\ pc' = "pack"
            /\ UNCHANGED <<exitCode, failed, console, faults, calls>>
       ELSE Await("stat", "fs.stat", <<targetPath.v>>, "pack")
    /\ UNCHANGED <<fixed, env, handle, locals, files>>

\* line 228
StatTarget ==
    /\ Await("stat", "fs.stat", <<targetPath.v>>, "pack")
    /\ UNCHANGED <<fixed, env, handle, locals, files>>

\* lines 231-233
CreateCar ==
    /\ Await("pack", "createCarFromPath", <<targetPath.v>>, "readcar")
    /\ IF pc' = "readcar"
       THEN carPath' = packedCarPath /\ rootCidStr' = packedRootCid
       ELSE UNCHANGED <<carPath, rootCidStr>>
    /\ UNCHANGED <<fixed, env, handle, status, requiredTopUp, policy, carBytes,
                   providerInfo, uploaded, meta, files>>

\* Mutant of ReadCar: the capacity validation is skipped.
ReadCarSkipValidation ==
    /\ Await("readcar", "fs.readFile", <<carPath>>, "context")
    /\ IF pc' = "context"
       THEN \E n \in CarLens : carBytes' = [path |-> carPath, length |-> n]
       ELSE carBytes' = carBytes
    /\ UNCHANGED <<fixed, env, handle, status, requiredTopUp, policy, carPath,
                   rootCidStr, providerInfo, uploaded, meta, files>>

\* line 237
ReadCar ==
    /\ Await("readcar", "fs.readFile", <<carPath>>, "validate")
    /\ IF pc' = "validate"
       THEN \E n \in CarLens : carBytes' = [path |-> carPath, length |-> n]
       ELSE carBytes' = carBytes
    /\ UNCHANGED <<fixed, env, handle, status, requiredTopUp, policy, carPath,
                   rootCidStr, providerInfo, uploaded, meta, files>>

\* line 240
ValidatePaymentSetup ==
    /\ Await("validate", "validatePaymentSetup", <<carBytes.length>>, "context")
    /\ UNCHANGED <<fixed, env, handle, locals, files>>

\* lines 243-244
CreateStorageContext ==
    /\ Await("context", "createStorageContext", << >>, "upload")
    /\ env' = IF withCDN THEN [env EXCEPT !.WITH_CDN = [set |-> TRUE, v |-> "true"]]
              ELSE env
    /\ IF pc' = "upload"
       THEN providerInfo' \in ProviderInfos
       ELSE providerInfo' = providerInfo
    /\ UNCHANGED <<fixed, handle, status, requiredTopUp, policy, carPath, rootCidStr,
                   carBytes, uploaded, meta, files>>

\* Mutant of UploadToSynapse: a failed upload is swallowed and the run goes on.
UploadToSynapseSwallowed ==
    /\ pc = "upload"
    /\ pc' = "mkdir"
    /\ \/ /\ Returns("uploadToSynapse", <<carBytes.path, carBytes.length, rootCidStr>>)
          /\ uploaded' \in UploadResults
       \/ /\ Throws("uploadToSynapse", <<carBytes.path, carBytes.length, rootCidStr>>)
          /\ uploaded' = uploaded
    /\ UNCHANGED <<fixed, env, exitCode, failed, console, handle, status, requiredTopUp,
                   policy, carPath, rootCidStr, carBytes, providerInfo, meta, files>>

\* lines 247-250
UploadToSynapse ==
    /\ Await("upload", "uploadToSynapse", <<carBytes.path, carBytes.length, rootCidStr>>,
             "mkdir")
    /\ IF pc' = "mkdir"
       THEN uploaded' \in UploadResults
       ELSE uploaded' = uploaded
    /\ UNCHANGED <<fixed, env, handle, status, requiredTopUp, policy, carPath,
                   rootCidStr, carBytes, providerInfo, meta, files>>

\* lines 257-262: a failure to create the artifact directory is only logged
MakeArtifactDir ==
    /\ pc = "mkdir"
    /\ pc' = "copy"
    /\ \/ /\ Returns("fs.mkdir", <<"artifacts">>)
          /\ console' = console
       \/ /\ Throws("fs.mkdir", <<"artifacts">>)
          /\ console' = console \cup {"error: Failed to create artifact directory"}
    /\ UNCHANGED <<fixed, env, exitCode, failed, handle, locals, files>>

\* line 266
CopyCar ==
    /\ Await("copy", "fs.copyFile", <<carPath>>, "writemeta")
    /\ UNCHANGED <<fixed, env, handle, locals, files>>

\* lines 269-287
WriteMetadata ==
    /\ Await("writemeta", "fs.writeFile", <<metadataPath>>,
             IF script = "phased" THEN "cachecopy" ELSE "out")
    /\ written' = IF pc' \in {"cachecopy", "out"}
                  THEN [written EXCEPT !.artifact =
                           JsonStringify(MetadataObject(rootCidStr, uploaded, providerInfo))]
                  ELSE written
    /\ UNCHANGED <<fixed, env, handle, locals, outputs, outIdx, summary>>

\* Mutant of WriteCacheCopy: the copy is awaited outside any try block.
WriteCacheCopyFatal ==
    /\ Await("cachecopy", "fs.writeFile", <<"cache", rootCidStr>>, "out")
    /\ written' = IF pc' = "out"
                  THEN [written EXCEPT !.cache = written.artifact, !.cacheKey = rootCidStr]
                  ELSE written
    /\ UNCHANGED <<fixed, env, handle, locals, outputs, outIdx, summary>>

\* lines 290-294: the copy keyed by the root CID; a failure is swallowed
WriteCacheCopy ==
    /\ pc = "cachecopy"
    /\ pc' = "out"
    /\ \/ /\ Returns("fs.writeFile", <<"cache", rootCidStr>>)
          /\ written' = [written EXCEPT !.cache = written.artifact,
                                        !.cacheKey = rootCidStr]
       \/ /\ Throws("fs.writeFile", <<"cache", rootCidStr>>)
          /\ written' = written
    /\ UNCHANGED <<fixed, env, exitCode, failed, console, handle, locals, outputs,
                   outIdx, summary>>


(***************************************************************************)
(* Outputs, summary, cleanup and the end of the process.                   *)
(***************************************************************************)
\* Where main() continues after the phase's writeOutput calls.
AfterOutputs ==
    CASE script = "phased" /\ phase = "compute" -> "return"
      [] script = "phased" /\ phase = "from-cache" -> "fc.readcar"
      [] OTHER -> "summary"

\* Mutant of writeOutput: the line is appended whether or not a file is configured.
writeOutputAlways(file, line) == Append(file, line)

\* writeOutput (lines 28-32) for one line: nothing happens without
\* GITHUB_OUTPUT, otherwise the line is appended to the file.
writeOutput(file, line) == IF Present(env.GITHUB_OUTPUT) THEN Append(file, line) ELSE file

RECURSIVE writeOutputs(_, _)
writeOutputs(file, lines) ==
    IF lines = << >> THEN file
    ELSE writeOutputs(writeOutput(file, Head(lines)), Tail(lines))

\* The writeOutput calls of the phase (lines 297-304, 79-80, 92-99), one
\* after the other: all of them return, or the first n do and the next
\* one throws in fs.appendFile.
WriteOutputs ==
    /\ pc = "out"
    /\ \/ /\ outputs' = writeOutputs(outputs, OutputList)
          /\ outIdx' = Len(OutputList)
          /\ pc' = AfterOutputs
          /\ UNCHANGED <<exitCode, failed, faults, console>>
       \/ /\ Present(env.GITHUB_OUTPUT)
          /\ faults < MaxFaults
          /\ faults' = faults + 1
          /\ \E n \in 0..(Len(OutputList) - 1) :
                /\ outputs' = writeOutputs(outputs, SubSeq(OutputList, 1, n))
                /\ outIdx' = n + 1
          /\ Throw("writeOutput")
    /\ UNCHANGED <<fixed, env, calls, handle, locals, written, summary>>

\* lines 316-339: the summary is appended; a failure is only logged
AppendSummary ==
    /\ pc = "summary"
    /\ pc' = "cleanup"
    /\ IF ~ Present(env.GITHUB_STEP_SUMMARY)
       THEN UNCHANGED <<faults, calls, summary, console>>
       ELSE \/ /\ Returns("fs.appendFile", <<"GITHUB_STEP_SUMMARY">>)
               /\ summary' = Append(summary, "## Filecoin Pin Upload")
               /\ console' = console
            \/ /\ Throws("fs.appendFile", <<"GITHUB_STEP_SUMMARY">>)
               /\ summary' = summary
               /\ console' = console \cup {"error: Failed to write summary"}
    /\ UNCHANGED <<fixed, env, exitCode, failed, handle, locals, written, outputs, outIdx>>

\* line 341
Cleanup ==
    /\ Await("cleanup", "cleanupSynapseService", << >>, "return")
    /\ UNCHANGED <<fixed, env, handle, locals, files>>

\* main() returned: the process ends with status 0
Return ==
    /\ pc = "return"
    /\ Exit(0)
    /\ UNCHANGED <<fixed, env, failed, console, faults, calls, handle, locals, files>>

\* Mutant of Catch: the handler exits without releasing the service.
CatchWithoutCleanup ==
    /\ pc = "catch"
    /\ console' = console \cup {"error: Upload failed"}
    /\ Exit(1)
    /\ UNCHANGED <<fixed, env, failed, faults, calls, handle, locals, files>>

\* lines 344-352: main().catch logs, cleans up and exits with status 1
Catch ==
    /\ pc = "catch"
    /\ \/ /\ Returns("cleanupSynapseService", << >>)
          /\ console' = console \cup {"error: Upload failed"}
       \/ /\ Throws("cleanupSynapseService", << >>)
          /\ console' = console \cup {"error: Upload failed", "error: Cleanup failed"}
    /\ Exit(1)
    /\ UNCHANGED <<fixed, env, failed, handle, locals, files>>

(***************************************************************************)
(* The compute phase, lines 74-82.                                         *)
(***************************************************************************)
\* line 75
ComputeStat ==
    /\ Await("c.stat", "fs.stat", <<targetPath.v>>, "c.pack")
    /\ UNCHANGED <<fixed, env, handle, locals, files>>

\* line 78
ComputePack ==
    /\ Await("c.pack", "createCarFromPath", <<targetPath.v>>, "out")
    /\ IF pc' = "out"
       THEN carPath' = packedCarPath /\ rootCidStr' = packedRootCid
       ELSE UNCHANGED <<carPath, rootCidStr>>
    /\ UNCHANGED <<fixed, env, handle, status, requiredTopUp, policy, carBytes,
                   providerInfo, uploaded, meta, files>>

(***************************************************************************)
(* The from-cache phase, lines 85-182.                                     *)
(***************************************************************************)
\* lines 86-90: read and parse CACHE_DIR/upload.json; join throws without
\* CACHE_DIR, readFile throws without the file (or on an I/O error)
FcReadMeta ==
    /\ pc = "fc.meta"
    /\ IF ~ env.CACHE_DIR.set
       THEN /\ Throw("join")
            /\ UNCHANGED <<faults, calls, meta>>
       ELSE \/ /\ restored.exists
               /\ Returns("fs.readFile", <<metaPath>>)
               /\ meta' = restored.text
               /\ pc' = "out"
               /\ UNCHANGED <<exitCode, failed, console>>
            \/ /\ restored.exists
               /\ Throws("fs.readFile", <<metaPath>>)
               /\ Throw("fs.readFile")
               /\ meta' = meta
            \/ /\ ~ restored.exists
               /\ calls' = Append(calls, Call("fs.readFile", <<metaPath>>, FALSE))
               /\ Throw("fs.readFile")
               /\ UNCHANGED <<faults, meta>>
    /\ UNCHANGED <<fixed, env, handle, status, requiredTopUp, policy, carPath,
                   rootCidStr, carBytes, providerInfo, uploaded, files>>

\* lines 106-107: the archive is PREPARED_CAR_PATH || meta.carPath
FcReadCar ==
    /\ LET path == IF Present(env.PREPARED_CAR_PATH) THEN env.PREPARED_CAR_PATH.v
                   ELSE JsString(JsonGet(meta, "carPath"))
       IN /\ Await("fc.readcar", "fs.readFile", <<path>>, "fc.init")
          /\ IF pc' = "fc.init"
             THEN \E n \in CarLens : carBytes' = [path |-> path, length |-> n]
             ELSE carBytes' = carBytes
    /\ UNCHANGED <<fixed, env, handle, status, requiredTopUp, policy, carPath,
                   rootCidStr, providerInfo, uploaded, meta, files>>

\* line 110
FcInitializeSynapse ==
    /\ Await("fc.init", "initializeSynapse", << >>, "fc.allow")
    /\ handle' = (pc' = "fc.allow")
    /\ UNCHANGED <<fixed, env, locals, files>>

\* line 111
FcCheckAndSetAllowances ==
    /\ Await("fc.allow", "checkAndSetAllowances", << >>, "fc.status")
    /\ UNCHANGED <<fixed, env, handle, locals, files>>

\* line 114
FcGetPaymentStatus ==
    /\ Await("fc.status", "getPaymentStatus", << >>, "fc.policy")
    /\ IF pc' = "fc.policy"
       THEN \E d \in Amounts, q \in Amounts :
                status' = [fetched |-> TRUE, depositedAmount |-> d, quote |-> q]
       ELSE status' = status
    /\ UNCHANGED <<fixed, env, handle, requiredTopUp, policy, carPath, rootCidStr,
                   carBytes, providerInfo, uploaded, meta, files>>

\* Mutant of FcTopUpPolicy: the top-up is computed but never deposited.
FcTopUpPolicySkipsDeposit ==
    /\ pc = "fc.policy"
    /\ LET required == requiredTopUpFromCache(status, minDays, minBalance)
       IN /\ requiredTopUp' = required
          /\ policy' = IF required > 0 THEN "deposit" ELSE "none"
          /\ pc' = "fc.validate"
    /\ UNCHANGED <<fixed, env, exitCode, failed, faults, console, calls, handle, status,
                   carPath, rootCidStr, carBytes, providerInfo, uploaded, meta, files>>

\* lines 115-129: compute the top-up; above the ceiling an Error is thrown
FcTopUpPolicy ==
    /\ pc = "fc.policy"
    /\ LET required == requiredTopUpFromCache(status, minDays, minBalance)
       IN /\ requiredTopUp' = required
          /\ IF required > 0
             THEN IF ExceedsCeiling(required)
                  THEN /\ policy' = "ceiling"
                       /\ Throw("maxTopUp")
                  ELSE /\ policy' = "deposit"
                       /\ pc' = "fc.deposit"
                       /\ UNCHANGED <<console, exitCode, failed>>
             ELSE /\ policy' = "none"
                  /\ pc' = "fc.validate"
                  /\ UNCHANGED <<console, exitCode, failed>>
    /\ UNCHANGED <<fixed, env, faults, calls, handle, status, carPath, rootCidStr,
                   carBytes, providerInfo, uploaded, meta, files>>

\* line 131
FcDepositUSDFC ==
    /\ Await("fc.deposit", "depositUSDFC", <<requiredTopUp>>, "fc.refetch")
    /\ UNCHANGED <<fixed, env, handle, locals, files>>

\* line 132
FcRefetchStatus ==
    /\ Await("fc.refetch", "getPaymentStatus", << >>, "fc.validate")
    /\ status' = IF pc' = "fc.validate" THEN StatusAfterDeposit(status, requiredTopUp)
                 ELSE status
    /\ UNCHANGED <<fixed, env, handle, requiredTopUp, policy, carPath, rootCidStr,
                   carBytes, providerInfo, uploaded, meta, files>>

\* line 136
FcValidatePaymentSetup ==
    /\ Await("fc.validate", "validatePaymentSetup", <<carBytes.length>>, "fc.finally")
    /\ UNCHANGED <<fixed, env, handle, locals, files>>

\* lines 139-144: finally, cleanup; its failure is swallowed
FcFinally ==
    /\ pc = "fc.finally"
    /\ pc' = "fc.mirror"
    /\ \/ Returns("cleanupSynapseService", << >>)
       \/ Throws("cleanupSynapseService", << >>)
    /\ UNCHANGED <<fixed, env, exitCode, failed, console, handle, locals, files>>

\* lines 148-155: mirror the restored metadata under .filecoin-pin-cache/<root>
FcMirror ==
    /\ pc = "fc.mirror"
    /\ pc' = "fc.summary"
    /\ LET root == JsString(JsonGet(meta, "rootCid"))
       IN \/ /\ Returns("fs.writeFile", <<"cache", root>>)
             /\ written' = [written EXCEPT !.cache = restored.text, !.cacheKey = root]
             /\ console' = console
          \/ /\ Throws("fs.writeFile", <<"cache", root>>)
             /\ written' = written
             /\ console' = console \cup {"warn: Failed to mirror metadata"}
    /\ UNCHANGED <<fixed, env, exitCode, failed, handle, locals, outputs, outIdx, summary>>

\* lines 158-179: the summary; a failure is swallowed
FcSummary ==
    /\ pc = "fc.summary"
    /\ pc' = "return"
    /\ IF ~ Present(env.GITHUB_STEP_SUMMARY)
       THEN UNCHANGED <<faults, calls, summary>>
       ELSE \/ /\ Returns("fs.appendFile", <<"GITHUB_STEP_SUMMARY">>)
               /\ summary' = Append(summary,
                                    IF fromArtifact
                                    THEN "## Filecoin Pin Upload (reused artifact)"
                                    ELSE "## Filecoin Pin Upload (cached)")
            \/ /\ Throws("fs.appendFile", <<"GITHUB_STEP_SUMMARY">>)
               /\ summary' = summary
    /\ UNCHANGED <<fixed, env, exitCode, failed, console, handle, locals, written,
                   outputs, outIdx>>

(***************************************************************************)
(* The process.                                                            *)
(***************************************************************************)
Next ==
    \/ ReadInputs
    \/ ParseValues
    \/ ValidateToken
    \/ InitializeSynapse
    \/ CheckAndSetAllowances
    \/ GetPaymentStatus
    \/ TopUpPolicy
    \/ DepositUSDFC
    \/ RefetchStatus
    \/ PrepareCar
    \/ StatTarget
    \/ CreateCar
    \/ ReadCar
    \/ ValidatePaymentSetup
    \/ CreateStorageContext
    \/ UploadToSynapse
    \/ MakeArtifactDir
    \/ CopyCar
    \/ WriteMetadata
    \/ WriteCacheCopy
    \/ WriteOutputs
    \/ AppendSummary
    \/ Cleanup
    \/ Return
    \/ Catch
    \/ ComputeStat
    \/ ComputePack
    \/ FcReadMeta
    \/ FcReadCar
    \/ FcInitializeSynapse
    \/ FcCheckAndSetAllowances
    \/ FcGetPaymentStatus
    \/ FcTopUpPolicy
    \/ FcDepositUSDFC
    \/ FcRefetchStatus
    \/ FcValidatePaymentSetup
    \/ FcFinally
    \/ FcMirror
    \/ FcSummary

Spec == Init /\ [][Next]_vars


(***************************************************************************)
(* Vocabulary of the claims.                                               *)
(***************************************************************************)
Max(a, b) == IF a > b THEN a ELSE b

IndicesOf(fn) == {i \in 1..Len(calls) : calls[i].fn = fn}
Count(fn) == Cardinality(IndicesOf(fn))
Returned(fn) == {i \in IndicesOf(fn) : calls[i].ok}

Exited == pc = "exited"
FromCacheRun == script = "phased" /\ phase = "from-cache"
ComputeRun == script = "phased" /\ phase = "compute"
UploadRun == ~ FromCacheRun /\ ~ ComputeRun

\* The top-up has been computed from the status that is still in `status`.
PolicyFresh == policy # "pending" /\ Cardinality(Returned("getPaymentStatus")) = 1
byDays == IF minDays > 0 THEN computeTopUpForDuration(status, minDays) ELSE 0
byBalance == IF minBalance > 0 /\ status.depositedAmount < minBalance
             THEN minBalance - status.depositedAmount ELSE 0

\* The required top-up is above a configured ceiling.
AboveCeiling == policy # "pending" /\ hasMaxTopUp /\ requiredTopUp > maxTopUp

\* A top-up is required and allowed.
TopUpDue == policy # "pending" /\ requiredTopUp > 0
            /\ ~ (hasMaxTopUp /\ requiredTopUp > maxTopUp)

\* The value written for an output name, "" when the name was not written.
OutputValue(file, name) ==
    IF \E i \in 1..Len(file) : file[i][1] = name
    THEN file[CHOOSE i \in 1..Len(file) : file[i][1] = name][2]
    ELSE ""

(***************************************************************************)
(* C1.  Stated as in the specification: whenever the process has exited    *)
(* after initializeSynapse returned the service handle,                    *)
(* cleanupSynapseService has been called exactly once.  The payment        *)
(* ceiling stop of the upload sequence (process.exit(1) at line 216)       *)
(* leaves without any cleanup call, and a cleanup that throws at line 341  *)
(* is followed by a second call in main().catch.                           *)
(***************************************************************************)
C1_CleanupExactlyOnce ==
    (Exited /\ handle) => Count("cleanupSynapseService") = 1

(***************************************************************************)
(* C2 as stated: when the required top-up is above the ceiling, the run    *)
(* exits with status 1 and makes no deposit call, in every phase.          *)
(***************************************************************************)
C2_CeilingExitsOne ==
    (Exited /\ AboveCeiling) => (exitCode = 1 /\ Count("depositUSDFC") = 0)

(***************************************************************************)
(* C2 amended: when the required top-up is above the ceiling no deposit    *)
(* call is ever made, in every phase; the upload sequence exits at once    *)
(* with status 1, while the from-cache phase logs a warning and ends with  *)
(* status 0.  Every deposit call is for an amount that passed the ceiling  *)
(* comparison.                                                             *)
(***************************************************************************)
C2_CeilingStop ==
    /\ AboveCeiling => Count("depositUSDFC") = 0
    /\ (AboveCeiling /\ UploadRun) => (Exited /\ exitCode = 1)
    /\ (AboveCeiling /\ FromCacheRun) =>
           /\ "warn: validation failed" \in console
           /\ pc # "catch"
           /\ Exited => exitCode = 0
    /\ \A i \in IndicesOf("depositUSDFC") :
           /\ policy = "deposit"
           /\ ~ (hasMaxTopUp /\ calls[i].arg[1] > maxTopUp)

C2_Witness ==
    /\ UploadRun /\ AboveCeiling /\ Exited /\ exitCode = 1
    /\ Count("checkAndSetAllowances") = 1

(***************************************************************************)
(* C3.  The required top-up is max(byDays, byBalance), in the upload       *)
(* sequence and in the from-cache phase alike, and both computations       *)
(* agree on the status at hand.                                            *)
(***************************************************************************)
C3_RequiredTopUpIsMax ==
    PolicyFresh =>
        /\ requiredTopUp = Max(byDays, byBalance)
        /\ requiredTopUpUpload(status, minDays, minBalance) = Max(byDays, byBalance)
        /\ requiredTopUpFromCache(status, minDays, minBalance) = Max(byDays, byBalance)

\* both constraints ask for a top-up, and the result is below their sum
C3_Witness ==
    /\ PolicyFresh /\ byDays > 0 /\ byBalance > byDays
    /\ requiredTopUp = byBalance /\ requiredTopUp < byDays + byBalance

(***************************************************************************)
(* C4.  In the upload sequence every listed call is made only after the    *)
(* one before it in the list returned: checkAndSetAllowances,              *)
(* getPaymentStatus, the optional depositUSDFC, validatePaymentSetup for   *)
(* the length of the archive that is uploaded, createStorageContext,       *)
(* uploadToSynapse; nothing but cleanup follows a cleanupSynapseService    *)
(* call, and a run that ends with status 0 made all of them.               *)
(***************************************************************************)
C4_UploadOrder ==
    UploadRun =>
        /\ \A j \in 1..Len(calls) :
            LET Before(fn) == \E i \in Returned(fn) : i < j
            IN /\ calls[j].fn = "checkAndSetAllowances" => Before("initializeSynapse")
               /\ calls[j].fn = "getPaymentStatus" => Before("checkAndSetAllowances")
               /\ calls[j].fn = "depositUSDFC" => Before("getPaymentStatus")
               /\ calls[j].fn = "validatePaymentSetup" =>
                      /\ Before("getPaymentStatus")
                      /\ \A i \in IndicesOf("depositUSDFC") : i < j /\ calls[i].ok
               /\ calls[j].fn = "createStorageContext" => Before("validatePaymentSetup")
               /\ calls[j].fn = "uploadToSynapse" =>
                      /\ Before("createStorageContext")
                      /\ \E i \in Returned("validatePaymentSetup") :
                             i < j /\ calls[i].arg[1] = calls[j].arg[2]
                      /\ calls[j].arg[1] = carPath
               /\ calls[j].fn = "cleanupSynapseService" =>
                      \A k \in j..Len(calls) : calls[k].fn = "cleanupSynapseService"
        /\ (Exited /\ exitCode = 0) =>
               /\ Returned("uploadToSynapse") # {}
               /\ calls[Len(calls)] = Call("cleanupSynapseService", << >>, TRUE)

C4_Witness ==
    /\ UploadRun /\ Exited /\ exitCode = 0
    /\ Returned("depositUSDFC") # {} /\ Returned("uploadToSynapse") # {}

(***************************************************************************)
(* C5.  In the upload sequence, once one of allowance verification,        *)
(* status fetch, deposit, packaging, archive read, capacity validation,    *)
(* storage-context creation or upload has thrown, no later step is called  *)
(* (only cleanupSynapseService follows the failed call, which is not       *)
(* tried again), and the process exits with status 1 after the cleanup.    *)
(***************************************************************************)
FatalSteps ==
    {"checkAndSetAllowances", "getPaymentStatus", "depositUSDFC", "fs.stat",
     "createCarFromPath", "fs.readFile", "validatePaymentSetup",
     "createStorageContext", "uploadToSynapse"}

C5_FailureAborts ==
    (UploadRun /\ failed \in FatalSteps) =>
        /\ pc \in {"catch", "exited"}
        /\ \E k \in IndicesOf(failed) :
              /\ ~ calls[k].ok
              /\ \A j \in (k + 1)..Len(calls) : calls[j].fn = "cleanupSynapseService"
        /\ Exited => (exitCode = 1 /\ Count("cleanupSynapseService") = 1)

C5_Witness ==
    /\ UploadRun /\ Exited /\ failed = "uploadToSynapse"
    /\ Returned("depositUSDFC") # {}

(***************************************************************************)
(* C6.  When a top-up is required and within the ceiling, once the policy  *)
(* step is over exactly one depositUSDFC call has been made, for the       *)
(* required top-up; a deposit that returned is followed at once by a       *)
(* getPaymentStatus call, and that re-fetch has returned before any        *)
(* capacity validation.  No run makes more than one deposit call.          *)
(***************************************************************************)
C6_OneDepositThenRefetch ==
    /\ Count("depositUSDFC") <= 1
    /\ (TopUpDue /\ pc \notin {"deposit", "fc.deposit"}) =>
           /\ Count("depositUSDFC") = 1
           /\ \A i \in IndicesOf("depositUSDFC") :
                 /\ calls[i].arg = <<requiredTopUp>>
                 /\ (calls[i].ok /\ i < Len(calls)) => calls[i + 1].fn = "getPaymentStatus"
                 /\ \A j \in IndicesOf("validatePaymentSetup") :
                        \E r \in Returned("getPaymentStatus") : i < r /\ r < j

C6_Witness ==
    /\ TopUpDue /\ Exited /\ exitCode = 0
    /\ minDays = 10 /\ minBalanceRaw = << >> /\ ~ hasMaxTopUp
    /\ Count("depositUSDFC") = 1 /\ Returned("validatePaymentSetup") # {}

(***************************************************************************)
(* C7.  With minDays 0 and no minBalance the required top-up is zero for   *)
(* every status and the run makes no deposit call; with a deposited        *)
(* amount of at least minBalance and a minDays-derived top-up of 0 the     *)
(* required top-up is zero; a zero top-up is never deposited.              *)
(***************************************************************************)
C7_NoTopUpNoDeposit ==
    /\ (minDays = 0 /\ minBalanceRaw = << >>) =>
           /\ Count("depositUSDFC") = 0
           /\ policy # "pending" => requiredTopUp = 0
    /\ (PolicyFresh /\ status.depositedAmount >= minBalance /\ byDays = 0) =>
           requiredTopUp = 0
    /\ (policy # "pending" /\ requiredTopUp = 0) => Count("depositUSDFC") = 0

\* the SDK would quote a top-up, but minDays is 0
C7_Witness ==
    /\ minDays = 0 /\ minBalanceRaw = << >> /\ PolicyFresh /\ status.quote > 0
    /\ Exited /\ exitCode = 0 /\ Returned("validatePaymentSetup") # {}

(***************************************************************************)
(* C8.  In the from-cache phase a failure of a re-validation step (archive *)
(* read, service initialization, allowances, status fetch, ceiling,        *)
(* deposit, re-fetch, capacity validation) is logged as a warning and      *)
(* never reaches main().catch; the phase goes on to mirror the metadata    *)
(* and to write the summary, and the process ends with status 0.           *)
(***************************************************************************)
ValidationSteps ==
    {"fs.readFile", "initializeSynapse", "checkAndSetAllowances", "getPaymentStatus",
     "maxTopUp", "depositUSDFC", "validatePaymentSetup"}

ValidationFailed == FromCacheRun /\ outIdx = 8 /\ failed \in ValidationSteps

C8_ValidationFailureIsAdvisory ==
    ValidationFailed =>
        /\ "warn: validation failed" \in console
        /\ pc \in {"fc.finally", "fc.mirror", "fc.summary", "return", "exited"}
        /\ Exited =>
              /\ exitCode = 0
              /\ \E i \in IndicesOf("fs.writeFile") : calls[i].arg[1] = "cache"
              /\ Present(env.GITHUB_STEP_SUMMARY) =>
                     \E i \in IndicesOf("fs.appendFile") :
                         calls[i].arg = <<"GITHUB_STEP_SUMMARY">>

C8_Witness ==
    /\ ValidationFailed /\ failed = "validatePaymentSetup" /\ Exited /\ exitCode = 0
    /\ written.cacheKey = preparedRootCid /\ Len(summary) = 2

RoundTripKeys == {"root_cid", "data_set_id", "piece_cid", "provider_id", "provider_name"}

C11_FromCacheNoPackNoUpload ==
    FromCacheRun =>
        /\ Count("createCarFromPath") = 0
        /\ Count("createStorageContext") = 0
        /\ Count("uploadToSynapse") = 0
        /\ uploaded = NoUpload /\ providerInfo = NoProvider

\* a from-cache run that re-validated the payment setup and ended
C11_Witness ==
    /\ FromCacheRun /\ Exited /\ exitCode = 0
    /\ Returned("validatePaymentSetup") # {} /\ Len(outputs) = 8

(***************************************************************************)
(* C12.  A compute run calls nothing but fs.stat and the packer (and the   *)
(* cleanup of main().catch when it fails): it never initializes the        *)
(* service, never verifies allowances, never fetches the payment status,   *)
(* never deposits, validates or uploads.  When it ends with status 0 the   *)
(* packer returned and the outputs are exactly root_cid and car_path;      *)
(* when fs.stat or the packer threw it ends with status 1 and has written  *)
(* no output.                                                              *)
(***************************************************************************)
PackagingSteps == {"fs.stat", "createCarFromPath"}

C12_ComputeOnlyPacks ==
    ComputeRun =>
        /\ \A i \in 1..Len(calls) :
               calls[i].fn \in PackagingSteps \cup {"cleanupSynapseService"}
        /\ ~ handle /\ status = NoStatus /\ written = NoFiles
        /\ (Exited /\ exitCode = 0) =>
               /\ Returned("createCarFromPath") # {}
               /\ Count("cleanupSynapseService") = 0
               /\ outputs = IF Present(env.GITHUB_OUTPUT)
                            THEN << <<"root_cid", packedRootCid>>,
                                    <<"car_path", packedCarPath>> >>
                            ELSE << >>
        /\ failed \in PackagingSteps =>
               /\ outputs = << >>
               /\ pc \in {"catch", "exited"}
               /\ Exited => exitCode = 1

\* a compute run that packed and wrote its two outputs
C12_Witness ==
    /\ ComputeRun /\ Exited /\ exitCode = 0
    /\ Len(outputs) = 2 /\ OutputValue(outputs, "car_path") = packedCarPath

(***************************************************************************)
(* C13.  In the upload sequence the packer is called exactly when the      *)
(* prepared archive path and the prepared root CID are not both given:     *)
(* it is never called when both are, and it has returned before the        *)
(* archive is read when one is missing.  With both given, the archive      *)
(* that is read, validated and uploaded is the prepared one, and the root  *)
(* CID of the metadata file and of the outputs is the given one.           *)
(***************************************************************************)
BothPrepared ==
    /\ script = "phased"
    /\ Present(env.PREPARED_CAR_PATH) /\ Present(env.PREPARED_ROOT_CID)

C13_PackIffNotPrepared ==
    UploadRun =>
        /\ Count("createCarFromPath") > 0 => ~ BothPrepared
        /\ \A j \in IndicesOf("fs.readFile") :
               ~ BothPrepared => \E i \in Returned("createCarFromPath") : i < j
        /\ BothPrepared =>
               /\ \A j \in IndicesOf("fs.readFile") :
                      calls[j].arg = <<env.PREPARED_CAR_PATH.v>>
               /\ \A j \in IndicesOf("validatePaymentSetup") :
                      carBytes.path = env.PREPARED_CAR_PATH.v
                      /\ calls[j].arg = <<carBytes.length>>
               /\ \A j \in IndicesOf("uploadToSynapse") :
                      calls[j].arg = <<env.PREPARED_CAR_PATH.v, carBytes.length,
                                       env.PREPARED_ROOT_CID.v>>
               /\ written.artifact # NoText =>
                      JsonGet(written.artifact, "rootCid") = Str(env.PREPARED_ROOT_CID.v)
               /\ outputs # << >> =>
                      OutputValue(outputs, "root_cid") = env.PREPARED_ROOT_CID.v

\* an upload of the prepared archive, from the first call to the last
C13_Witness ==
    /\ UploadRun /\ BothPrepared /\ Exited /\ exitCode = 0
    /\ Count("createCarFromPath") = 0 /\ Returned("uploadToSynapse") # {}
    /\ OutputValue(outputs, "root_cid") = preparedRootCid

(***************************************************************************)
(* C14.  In the upload sequence the metadata file, the cache copy keyed    *)
(* by the root CID and every output line (data_set_id, piece_cid, the      *)
(* provider fields and upload_status among them) are written only after    *)
(* uploadToSynapse returned; a run that ends with status 1 without a       *)
(* returned upload has written none of them.                               *)
(***************************************************************************)
C14_NoResultOnFailure ==
    UploadRun =>
        /\ (written # NoFiles \/ outputs # << >>) =>
               /\ Returned("uploadToSynapse") # {}
               /\ uploaded \in UploadResults
        /\ written.artifact # NoText =>
               written.artifact = JsonStringify(MetadataObject(rootCidStr, uploaded,
                                                               providerInfo))
        /\ (Exited /\ exitCode = 1 /\ Returned("uploadToSynapse") = {}) =>
               written = NoFiles /\ outputs = << >>

\* the upload itself threw, with an output file configured
C14_Witness ==
    /\ UploadRun /\ Exited /\ exitCode = 1 /\ failed = "uploadToSynapse"
    /\ Present(env.GITHUB_OUTPUT) /\ written = NoFiles /\ outputs = << >>

(***************************************************************************)
(* C15 as stated: with INPUT_TOKEN set to any value other than USDFC the   *)
(* run makes no service call, touches no file and exits with status 1.     *)
(***************************************************************************)
Untouched ==
    /\ \A i \in 1..Len(calls) : calls[i].fn = "cleanupSynapseService"
    /\ ~ handle /\ written = NoFiles /\ outputs = << >> /\ Len(summary) = 1
    /\ ~ env.PROVIDER_ADDRESS.set /\ ~ env.WITH_CDN.set

C15_AnyOtherTokenExits ==
    (env.INPUT_TOKEN.set /\ env.INPUT_TOKEN.v # <<"U", "S", "D", "F", "C">>) =>
        /\ Untouched
        /\ Exited => exitCode = 1

(***************************************************************************)
(* C15 amended: a token that, once trimmed, is not empty and differs from  *)
(* USDFC when letter case is ignored ends the run with status 1 in every   *)
(* phase, before initializeSynapse or any other payment, storage or        *)
(* filesystem call and before PROVIDER_ADDRESS is set; the only call such  *)
(* a run can make is the cleanup of main().catch, when an amount input     *)
(* does not parse.  A blank token and usdfc in lower case are accepted.    *)
(***************************************************************************)
RejectedToken == token # << >> /\ ToUpperCase(token) # <<"U", "S", "D", "F", "C">>

C15_RejectedTokenStops ==
    /\ RejectedToken =>
           /\ Untouched
           /\ pc \in {"start", "parse", "token", "catch", "exited"}
           /\ Exited => exitCode = 1
    /\ (~ RejectedToken /\ pc = "exited" /\ calls = << >> /\ failed = "") =>
           privateKey = << >>

\* a from-cache run with the token FIL
C15_Witness ==
    /\ RejectedToken /\ FromCacheRun /\ Exited /\ exitCode = 1
    /\ privateKey # << >> /\ calls = << >>
    /\ "error: Only USDFC is supported" \in console

(***************************************************************************)
(* C16.  When INPUT_PRIVATEKEY is absent, empty or blank, the run ends     *)
(* with status 1 in its first step, in every phase: no call is made, no    *)
(* file is written, the environment is not changed, and nothing is parsed  *)
(* or validated before the exit.                                           *)
(***************************************************************************)
NoCredential == ~ env.INPUT_PRIVATEKEY.set \/ Trim(env.INPUT_PRIVATEKEY.v) = << >>

C16_NoCredentialStops ==
    NoCredential =>
        /\ calls = << >> /\ Untouched /\ failed = ""
        /\ pc \in {"start", "exited"}
        /\ Exited => (exitCode = 1 /\ console = {"error: privateKey is required"})

\* a compute run without the credential
C16_Witness ==
    /\ ~ env.INPUT_PRIVATEKEY.set /\ ComputeRun /\ Exited /\ exitCode = 1
    /\ calls = << >> /\ outputs = << >>

(***************************************************************************)
(* C17.  Stated as in the specification: each input resolves to the        *)
(* trimmed content of its INPUT_ variable, and to its documented default   *)
(* when the variable is absent and when it is empty (or blank).  getInput  *)
(* falls back with ?? only, which replaces an absent variable: one set to  *)
(* the empty string resolves to the empty string, so minDays becomes 0     *)
(* and the token check is skipped.                                         *)
(***************************************************************************)
ResolvedOrDefault(key, default) ==
    IF env[key].set /\ Trim(env[key].v) # << >> THEN Trim(env[key].v) ELSE default

C17_EmptyResolvesToDefault ==
    /\ minDaysRaw = ResolvedOrDefault("INPUT_MINDAYS", <<"1", "0">>)
    /\ contentPath = ResolvedOrDefault("INPUT_PATH", <<"d", "i", "s", "t">>)
    /\ token = ResolvedOrDefault("INPUT_TOKEN", <<"U", "S", "D", "F", "C">>)
    /\ (env.INPUT_MINDAYS.set /\ Trim(env.INPUT_MINDAYS.v) = << >>) => minDays = 10

(***************************************************************************)
(* C18.  A failed summary append or a failed copy of the metadata into     *)
(* the cache directory keyed by the root CID does not change the outcome   *)
(* of an upload or from-cache run: unless another step failed fatally,     *)
(* the run never reaches main().catch, ends with status 0 and has written  *)
(* the outputs a run without that failure writes.  The summary file keeps  *)
(* what it held before the run; the run adds at most one entry after it.   *)
(***************************************************************************)
BestEffortCall(i) ==
    \/ calls[i].fn = "fs.appendFile"
    \/ calls[i].fn = "fs.writeFile" /\ calls[i].arg[1] = "cache"

BestEffortFailed == \E i \in 1..Len(calls) : ~ calls[i].ok /\ BestEffortCall(i)

\* A step that is not best-effort failed: a writeOutput, the parsing of an
\* amount, the path of the metadata, or a call outside the guarded blocks.
OtherFailure ==
    \/ failed \in {"writeOutput", "parseUnits", "join"}
    \/ \E i \in 1..Len(calls) :
          /\ ~ calls[i].ok /\ ~ BestEffortCall(i)
          /\ calls[i].fn # "fs.mkdir"
          /\ ~ (FromCacheRun /\ calls[i].fn \in ValidationSteps \cup {"cleanupSynapseService"})

C18_BestEffortNeverFatal ==
    /\ (BestEffortFailed /\ ~ OtherFailure) =>
           /\ UploadRun \/ FromCacheRun
           /\ pc # "catch"
           /\ Exited =>
                  /\ exitCode = 0
                  /\ outputs = writeOutputs(<< >>, OutputList)
    /\ Head(summary) = "earlier step" /\ Len(summary) <= 2

\* the cache copy of an upload run failed
C18_Witness ==
    /\ UploadRun /\ BestEffortFailed /\ Exited /\ exitCode = 0
    /\ Len(outputs) = 8 /\ written.cache = NoText /\ Len(summary) = 2

(***************************************************************************)
(* C19.  writeOutput appends the line name=value to the output file when   *)
(* GITHUB_OUTPUT is configured and does nothing otherwise.  Without the    *)
(* file nothing is written and no writeOutput fails; and once the          *)
(* writeOutput calls of the phase are over, the run is at the same         *)
(* statement and ends with the same status with and without the file,      *)
(* the file holding the lines of the phase, in order, when configured.     *)
(***************************************************************************)
OutputsDone == outIdx > 0 /\ failed # "writeOutput"

C19_WriteOutputNoOpWithoutFile ==
    /\ ~ Present(env.GITHUB_OUTPUT) => (outputs = << >> /\ failed # "writeOutput")
    /\ OutputsDone =>
           /\ outputs = IF Present(env.GITHUB_OUTPUT) THEN OutputList ELSE << >>
           /\ outIdx = IF ComputeRun THEN 2 ELSE IF script = "phased" THEN 8 ELSE 7
           /\ pc \in CASE ComputeRun -> {"return", "exited"}
                      [] FromCacheRun -> {"fc.readcar", "fc.init", "fc.allow", "fc.status",
                                          "fc.policy", "fc.deposit", "fc.refetch",
                                          "fc.validate", "fc.finally", "fc.mirror",
                                          "fc.summary", "return", "exited"}
                      [] OTHER -> {"summary", "cleanup", "return", "catch", "exited"}
           /\ (Exited /\ failed = "") => exitCode = 0
    /\ outputs # << >> => outputs = SubSeq(OutputList, 1, Len(outputs))

\* an upload run without an output file
C19_Witness ==
    /\ ~ Present(env.GITHUB_OUTPUT) /\ UploadRun /\ Exited /\ exitCode = 0
    /\ outIdx = 8 /\ outputs = << >> /\ Returned("uploadToSynapse") # {}

(***************************************************************************)
(* C20 as stated: each output key is written at most once per run, and in  *)
(* every phase no output is written before the packaging, the payment      *)
(* validation and the upload of the phase are over.                        *)
(***************************************************************************)
KeysWrittenOnce ==
    \A i, j \in 1..Len(outputs) : outputs[i][1] = outputs[j][1] => i = j

WorkOver ==
    CASE ComputeRun -> Returned("createCarFromPath") # {}
      [] FromCacheRun -> pc \in {"fc.finally", "fc.mirror", "fc.summary", "return", "exited"}
      [] OTHER -> Returned("validatePaymentSetup") # {} /\ Returned("uploadToSynapse") # {}

C20_OutputsAtEnd ==
    /\ KeysWrittenOnce
    /\ outputs # << >> => WorkOver

(***************************************************************************)
(* C20 amended: each output key is written at most once per run, in one    *)
(* block of writeOutput calls.  In the compute phase the block follows     *)
(* the packer, and in the upload sequence it follows packaging, capacity   *)
(* validation and the upload.  In the from-cache phase the block comes     *)
(* first, right after the metadata record was read: every re-validation    *)
(* call is made after the outputs were written.                            *)
(***************************************************************************)
C20_OutputsOnceInOneBlock ==
    /\ KeysWrittenOnce
    /\ (outputs # << >> /\ ~ FromCacheRun) => WorkOver
    /\ (outputs # << >> /\ FromCacheRun) =>
           Call("fs.readFile", <<metaPath>>, TRUE) = calls[1]
    /\ FromCacheRun =>
           \A i \in 2..Len(calls) :
               calls[i].fn \in ValidationSteps =>
                   Len(outputs) = IF Present(env.GITHUB_OUTPUT) THEN 8 ELSE 0
    /\ (outputs # << >> /\ pc # "out" /\ failed # "writeOutput") =>
           Len(outputs) = IF ComputeRun THEN 2
                          ELSE IF script = "phased" THEN 8 ELSE 7

\* a from-cache run that wrote its outputs and has not re-validated yet
C20_Witness ==
    /\ FromCacheRun /\ pc = "fc.readcar" /\ Len(outputs) = 8 /\ Len(calls) = 1

(***************************************************************************)
(* C21.  parseBoolean is true for the strings that are true, 1 or yes      *)
(* once trimmed and put in lower case, and false for every other string:   *)
(* withCDN is true for TRUE, 1 and " Yes", and false for the empty         *)
(* string, false, no, y and an unset input (whose default is false).       *)
(* WITH_CDN is set in the environment only when withCDN is true.           *)
(***************************************************************************)
TrueStrings == {<<"T", "R", "U", "E">>, <<"1">>, <<" ", "Y", "e", "s">>}
FalseStrings == {<< >>, <<"f", "a", "l", "s", "e">>, <<"n", "o">>, <<"y">>}

C21_ParseBoolean ==
    /\ \A s \in TrueStrings : parseBoolean(s)
    /\ \A s \in FalseStrings : ~ parseBoolean(s)
    /\ withCDN <=> (env.INPUT_WITHCDN.set /\ env.INPUT_WITHCDN.v \in TrueStrings)
    /\ env.WITH_CDN.set => withCDN

\* an upload that asked for the CDN with INPUT_WITHCDN=TRUE
C21_Witness ==
    /\ env.INPUT_WITHCDN = Val(<<"T", "R", "U", "E">>) /\ withCDN
    /\ env.WITH_CDN.set /\ Exited /\ exitCode = 0

(***************************************************************************)
(* C22.  One phase handler runs per process, chosen by ACTION_PHASE: the   *)
(* compute statements run only for compute, the from-cache statements      *)
(* only for from-cache, and the upload sequence for every other value      *)
(* (unset, upload, single, or an unknown name such as deploy).  A run of   *)
(* the upload sequence is never ended because of its phase name: unless    *)
(* the credential is missing, the token is refused, the ceiling is         *)
(* exceeded or a step fails, it deposits the top-up that is due, uploads   *)
(* and ends with status 0.                                                 *)
(***************************************************************************)
ComputeSteps == {"c.stat", "c.pack"}
FromCacheSteps == {"fc.meta", "fc.readcar", "fc.init", "fc.allow", "fc.status",
                   "fc.policy", "fc.deposit", "fc.refetch", "fc.validate",
                   "fc.finally", "fc.mirror", "fc.summary"}
UploadSteps == {"init", "allow", "status", "policy", "deposit", "refetch", "prepare",
                "stat", "pack", "readcar", "validate", "context", "upload", "mkdir",
                "copy", "writemeta", "cachecopy", "summary", "cleanup"}

C22_DispatchTotalExclusive ==
    /\ pc \in ComputeSteps \cup FromCacheSteps \cup UploadSteps
              \cup {"start", "parse", "token", "out", "return", "catch", "exited"}
    /\ pc \in ComputeSteps => ComputeRun
    /\ pc \in FromCacheSteps => FromCacheRun
    /\ pc \in UploadSteps => UploadRun
    /\ ComputeRun => Count("initializeSynapse") = 0 /\ Count("fs.readFile") = 0
    /\ FromCacheRun => Count("fs.stat") = 0 /\ Count("uploadToSynapse") = 0
    /\ UploadRun => \A i \in IndicesOf("fs.readFile") : calls[i].arg # <<metaPath>>
    /\ (UploadRun /\ Exited /\ failed = "" /\ ~ NoCredential /\ ~ RejectedToken
           /\ policy # "ceiling") =>
           /\ exitCode = 0
           /\ Returned("uploadToSynapse") # {}
           /\ TopUpDue => Returned("depositUSDFC") # {}

\* an unknown phase name: the top-up is deposited and the archive uploaded
C22_Witness ==
    /\ script = "phased" /\ phase = "deploy" /\ Exited /\ exitCode = 0
    /\ Returned("depositUSDFC") # {} /\ Returned("uploadToSynapse") # {}
    /\ Len(outputs) = 8

(***************************************************************************)
(* C23.  The phased script in its default single phase, without prepared   *)
(* archive values, against run.mjs.  Both scripts satisfy one description  *)
(* in which the script does not occur: the calls made (the cache copy      *)
(* left out) follow one plan, fixed by the inputs and by what the services *)
(* answered, with the same arguments, followed by the cleanup of the       *)
(* handler of main().catch after a failure; the exit status is 1 exactly   *)
(* after a missing credential, a refused token, an exceeded ceiling or a   *)
(* failure; and the outputs without upload_status are the same lines.      *)
(* Hence equal inputs and equal answers give equal calls and equal exit    *)
(* status.                                                                 *)
(*                                                                         *)
(* As stated, the phased script differs only by the cache copy and the     *)
(* upload_status output.  It differs in a third way: lines 43 and 69-71    *)
(* set PROVIDER_ADDRESS in the process environment, from the input         *)
(* providerAddress or from its built-in default, before the service is     *)
(* initialised; run.mjs never sets it.  C23_DiffersOnlyByCopyAndStatus is  *)
(* the statement as given, C23_SingleRefinesOriginal the amended one.      *)
(***************************************************************************)
SingleRun == UploadRun /\ phase = "single" /\ ~ BothPrepared

\* the calls without the copy into the cache directory
SdkCalls == SelectSeq(calls, LAMBDA c : ~ (c.fn = "fs.writeFile" /\ Len(c.arg) = 2))

\* the calls of a complete run, as <<function, arguments>>
Plan ==
    << <<"initializeSynapse", << >> >>, <<"checkAndSetAllowances", << >> >>,
       <<"getPaymentStatus", << >> >> >>
    \o (IF policy = "deposit"
        THEN << <<"depositUSDFC", <<requiredTopUp>> >>, <<"getPaymentStatus", << >> >> >>
        ELSE << >>)
    \o << <<"fs.stat", <<targetPath.v>> >>, <<"createCarFromPath", <<targetPath.v>> >>,
          <<"fs.readFile", <<carPath>> >>,
          <<"validatePaymentSetup", <<carBytes.length>> >>,
          <<"createStorageContext", << >> >>,
          <<"uploadToSynapse", <<carBytes.path, carBytes.length, rootCidStr>> >>,
          <<"fs.mkdir", <<"artifacts">> >>, <<"fs.copyFile", <<carPath>> >>,
          <<"fs.writeFile", <<metadataPath>> >> >>
    \o (IF Present(env.GITHUB_STEP_SUMMARY)
        THEN << <<"fs.appendFile", <<"GITHUB_STEP_SUMMARY">> >> >> ELSE << >>)
    \o << <<"cleanupSynapseService", << >> >> >>

SameSdkCallsAndExit ==
    LET K == SdkCalls
        caught == failed # "" /\ Exited
        m == IF caught THEN Len(K) - 1 ELSE Len(K)
    IN /\ m <= Len(Plan)
       /\ \A i \in 1..m : K[i].fn = Plan[i][1] /\ K[i].arg = Plan[i][2]
       /\ caught => Len(K) > 0 /\ K[Len(K)].fn = "cleanupSynapseService"
       /\ Exited => exitCode = IF \/ NoCredential \/ RejectedToken
                                  \/ policy = "ceiling" \/ failed # ""
                               THEN 1 ELSE 0
       /\ (Exited /\ exitCode = 0) => m = Len(Plan)

OutputsDifferByStatus ==
    LET shared == UploadOutputs("run", rootCidStr, uploaded, providerInfo)
        others == SelectSeq(outputs, LAMBDA l : l[1] # "upload_status")
    IN /\ outputs # << >> => others = SubSeq(shared, 1, Len(others))
       /\ script = "run" =>
              /\ Len(SdkCalls) = Len(calls) /\ written.cache = NoText
              /\ Len(others) = Len(outputs)
       /\ (script = "phased" /\ Exited /\ exitCode = 0) =>
              /\ Len(calls) = Len(SdkCalls) + 1
              /\ Present(env.GITHUB_OUTPUT) => Len(outputs) = Len(others) + 1

AfterDepositSteps ==
    PackagingSteps \cup {"fs.readFile", "validatePaymentSetup", "createStorageContext",
                         "uploadToSynapse"}

Deposited == Returned("depositUSDFC") # {}

C24_DepositFirstAndKept ==
    UploadRun =>
        /\ Count("depositUSDFC") <= 1
        /\ \A d \in IndicesOf("depositUSDFC") :
               /\ calls[d].arg = <<requiredTopUp>> /\ requiredTopUp > 0
               /\ \A j \in 1..Len(calls) :
                      /\ calls[j].fn \in AfterDepositSteps => d < j
                      /\ j > d => calls[j].fn \in AfterDepositSteps \cup
                                       {"getPaymentStatus", "fs.mkdir", "fs.copyFile",
                                        "fs.writeFile", "fs.appendFile",
                                        "cleanupSynapseService"}
        /\ \A j \in 1..Len(calls) :
               (TopUpDue /\ calls[j].fn \in AfterDepositSteps) =>
                   \E d \in Returned("depositUSDFC") : d < j
        /\ (Deposited /\ Cardinality(Returned("getPaymentStatus")) = 2) =>
               status.depositedAmount >= requiredTopUp
        /\ (Deposited /\ Exited) =>
               exitCode = IF failed = "" THEN 0 ELSE 1

\* the capacity validation fails after the deposit: status 1, the amount deposited
C24_Witness ==
    /\ UploadRun /\ Exited /\ exitCode = 1 /\ Deposited
    /\ failed = "validatePaymentSetup"
    /\ status.depositedAmount >= requiredTopUp /\ requiredTopUp > 0

====
